---- MODULE Spec2Model ----
(***************************************************************************)
(* A model of the OpenLR line decoder of openlr_dereferencer:              *)
(* candidate nomination, A* routing between candidates, the recursive      *)
(* tail matcher with backtracking, and the assemblers for line locations,  *)
(* point-along-line and POI-with-access-point locations.                   *)
(*                                                                         *)
(* Conventions.  Lengths and offsets are integers in meters.  A point on   *)
(* a line is kept as [line, off] with off = relative_offset * line.length, *)
(* so relative_offset > 0.0 is off > 0 and relative_offset < 1.0 is        *)
(* off < Length[line]; floating point rounding is not modelled.  Scores    *)
(* are kept as 4 * ScoreUnit * score, see score_lrp_candidate.             *)
(***************************************************************************)
EXTENDS Integers, Sequences, FiniteSets, TLC

\* ------------------------------------------------------------------------
\* Bounds of the model
\* ------------------------------------------------------------------------

\* The largest number of LRPs of a reference
MaxLrps == 3
\* Clock ticks that may pass during one decode
MaxElapsed == 1
\* The relative offsets poffs and noffs range over 0 .. MaxOffsNum halves
MaxOffsNum == 3
\* The longest directed path (in lines) that path searches are compared with
MaxPathLines == 4
\* shortest_path is searched with maxlen = 0, 50, ..., 50 * MaxLenSteps
MaxLenSteps == 8

\* ------------------------------------------------------------------------
\* The map: a reader over four nodes and five directed lines
\*
\*    n1 --L1--> n2 ==L2==> n3 --L3--> n4        L2 : n2 -> n3 (straight)
\*                  <=L5===                       L5 : n3 -> n2 (straight)
\*                  ~~L4~~>                       L4 : n2 -> n3 (detour)
\*
\* L2 and L5 are the short minor road (FRC 3) between n2 and n3, L4 is the
\* longer main road (FRC 1).
\*
\* Node coordinates (meters): n1 (0,0), n2 (100,0), n3 (200,0), n4 (300,0).
\* L4 runs (100,0) -> (100,30) -> (200,30) -> (200,0).
\* ------------------------------------------------------------------------

Nodes == 1..4
Lines == 1..5

StartNode == <<1, 2, 3, 2, 3>>
EndNode   == <<2, 3, 4, 3, 2>>
Length    == <<100, 100, 100, 160, 100>>
Frc       == <<1, 3, 2, 1, 3>>
Fow       == <<3, 3, 3, 3, 3>>
NodeX     == <<0, 100, 200, 300>>

Abs(x) == IF x < 0 THEN -x ELSE x

\* Node.outgoing_lines, in the reader's (id) order
outgoing_lines(n) == SelectSeq(<<1, 2, 3, 4, 5>>, LAMBDA l : StartNode[l] = n)

\* distance between two nodes' coordinates (all nodes lie on the x axis)
heuristic(current, target) == Abs(NodeX[current] - NodeX[target])

\* path_length: sum of the lines' lengths
RECURSIVE path_length(_)
path_length(lines) ==
    IF lines = <<>> THEN 0 ELSE Length[Head(lines)] + path_length(Tail(lines))

\* ------------------------------------------------------------------------
\* A* shortest path
\* ------------------------------------------------------------------------

PathNotFound == [found |-> FALSE, path |-> <<>>]

\* a line filter that lets every line pass
linefilter_any(line, lfrc) == TRUE

linefilter(line, lfrc) == Frc[line] <= lfrc

\* Score.__lt__ on (f, g)
ScoreLt(a, b) == a.f < b.f \/ (a.f = b.f /\ a.g < b.g)

\* a queue that pops the item pushed last, whatever its score
MinIndex_newest(open) == Len(open)

\* heappop: index of a least item; among equal scores the earliest pushed
MinIndex(open) ==
    CHOOSE i \in 1..Len(open) :
        /\ \A j \in 1..Len(open) : ~ScoreLt(open[j], open[i])
        /\ \A j \in 1..(i - 1) : ScoreLt(open[i], open[j])

RemoveAt(s, i) == SubSeq(s, 1, i - 1) \o SubSeq(s, i + 1, Len(s))

\* the expansion of `current` without the cut at maxlen
RECURSIVE Neighbors_no_maxlen(_, _, _, _, _, _, _)
Neighbors_no_maxlen(out, current, closed, endn, lfrc, maxlenS, scale) ==
    IF out = <<>> THEN <<>>
    ELSE LET line == Head(out)
             neighbor_node == EndNode[line]
             g == current.g + Length[line]
             f == g + heuristic(neighbor_node, endn)
             rest == Neighbors_no_maxlen(Tail(out), current, closed, endn, lfrc,
                                         maxlenS, scale)
         IN  IF ~linefilter(line, lfrc) THEN rest
             ELSE IF neighbor_node \in closed THEN rest
             ELSE <<[f |-> f, g |-> g, node |-> neighbor_node,
                     path |-> Append(current.path, line)]>> \o rest

\* The neighbours pushed while expanding `current`.  maxlenS is maxlen
\* scaled by `scale` (the f score is compared as f * scale > maxlenS).
RECURSIVE Neighbors(_, _, _, _, _, _, _)
Neighbors(out, current, closed, endn, lfrc, maxlenS, scale) ==
    IF out = <<>> THEN <<>>
    ELSE LET line == Head(out)
             neighbor_node == EndNode[line]
             g == current.g + Length[line]
             f == g + heuristic(neighbor_node, endn)
             rest == Neighbors(Tail(out), current, closed, endn, lfrc, maxlenS, scale)
         IN  IF ~linefilter(line, lfrc) THEN rest
             ELSE IF neighbor_node \in closed THEN rest
             ELSE IF f * scale > maxlenS THEN rest
             ELSE <<[f |-> f, g |-> g, node |-> neighbor_node,
                     path |-> Append(current.path, line)]>> \o rest

RECURSIVE AStarLoop(_, _, _, _, _, _)
AStarLoop(open, closed, endn, lfrc, maxlenS, scale) ==
    IF open = <<>> THEN PathNotFound
    ELSE LET i == MinIndex(open)
             current == open[i]
             rest == RemoveAt(open, i)
         IN  IF current.node = endn THEN [found |-> TRUE, path |-> current.path]
             ELSE IF current.node \in closed
                  THEN AStarLoop(rest, closed, endn, lfrc, maxlenS, scale)
             ELSE AStarLoop(
                    rest \o Neighbors(outgoing_lines(current.node), current, closed,
                                      endn, lfrc, maxlenS, scale),
                    closed \cup {current.node}, endn, lfrc, maxlenS, scale)

shortest_path(start, endn, lfrc, maxlenS, scale) ==
    AStarLoop(<<[f |-> heuristic(start, endn), g |-> 0, node |-> start, path |-> <<>>]>>,
              {}, endn, lfrc, maxlenS, scale)

\* ------------------------------------------------------------------------
\* Route algebra
\* ------------------------------------------------------------------------

PointOnLine(line, off) == [line |-> line, off |-> off]

distance_from_start(p) == p.off
distance_to_end(p) == Length[p.line] - p.off

Route(start, path, end) ==
    [start |-> PointOnLine(start.line, start.off), path |-> path,
     end |-> PointOnLine(end.line, end.off)]

Last(s) == s[Len(s)]
Front(s) == SubSeq(s, 1, Len(s) - 1)

RECURSIVE AppendDistinct(_, _)
AppendDistinct(result, path) ==
    IF path = <<>> THEN result
    ELSE IF Head(path) # Last(result)
         THEN AppendDistinct(Append(result, Head(path)), Tail(path))
         ELSE AppendDistinct(result, Tail(path))

\* Route.lines
RouteLines(r) ==
    LET result == AppendDistinct(<<r.start.line>>, r.path)
    IN  IF r.end.line = Last(result)
        THEN Append(Front(result), r.end.line)
        ELSE Append(result, r.end.line)

\* Route.length
RouteLength(r) ==
    LET total == path_length(RouteLines(r))
        a == IF r.start.off > 0 THEN distance_from_start(r.start) ELSE 0
        b == IF r.end.off < Length[r.end.line] THEN distance_to_end(r.end) ELSE 0
    IN  total - a - b

absolute_start_offset(r) == distance_from_start(r.start)
absolute_end_offset(r) == distance_to_end(r.end)

\* ------------------------------------------------------------------------
\* Configuration (Config defaults of decoding/configuration.py)
\* ------------------------------------------------------------------------

\* scores are carried as 4 * ScoreUnit * score, so that every sub-score of
\* the default configuration is an integer: 16 bearing sectors, 7 FRC steps,
\* a search radius of 50 m
ScoreUnit == 16 * 7 * 50

DEFAULT_CONFIG ==
    [search_radius       |-> 50,
     max_dnp_deviation   |-> <<1, 10>>,   \* 0.1 as a fraction
     tolerated_dnp_dev   |-> 30,
     min_score           |-> <<3, 10>>,   \* 0.3 as a fraction
     tolerated_lfrc      |-> [frc \in 0..7 |-> frc],
     candidate_threshold |-> 20,
     max_bear_deviation  |-> 45,
     bear_dist           |-> 20,
     timeout             |-> 50000]

\* DEFAULT_FOW_STAND_IN_SCORE in quarters, indexed [lrp.fow + 1][line.fow + 1]
DEFAULT_FOW_STAND_IN_SCORE ==
    << <<2, 2, 2, 2, 2, 2, 2, 2>>,
       <<2, 4, 3, 0, 0, 0, 0, 0>>,
       <<2, 3, 4, 3, 2, 0, 0, 0>>,
       <<2, 0, 3, 4, 2, 2, 0, 0>>,
       <<2, 0, 2, 2, 4, 2, 0, 0>>,
       <<2, 0, 0, 2, 2, 4, 0, 0>>,
       <<2, 0, 0, 0, 0, 0, 4, 0>>,
       <<2, 0, 0, 0, 0, 0, 0, 4>> >>

\* ------------------------------------------------------------------------
\* The positions an LRP may have, and what the reader and the geo kernel
\* answer for them: find_lines_close_to (radius 50), the projection onto
\* each close line (meters from its start) and the distance to it.
\*   1 (40,0)    2 (70,0)    3 (100,0) = n2   4 (150,30)   5 (260,0)
\*   6 (300,0) = n4   7 (200,0) = n3   8 far from every line   9 (190,0)
\* ------------------------------------------------------------------------

Positions == 1..9

find_lines_close_to ==
    << <<1>>, <<1, 2, 4, 5>>, <<1, 2, 4, 5>>, <<2, 4, 5>>, <<3>>, <<3>>,
       <<2, 3, 4, 5>>, <<>>, <<2, 3, 4, 5>> >>

Projection ==
    << <<40, 0, 0, 0, 0>>,
       <<70, 0, 0, 0, 100>>,
       <<100, 0, 0, 0, 100>>,
       <<0, 50, 0, 80, 50>>,
       <<0, 0, 60, 0, 0>>,
       <<0, 0, 100, 0, 0>>,
       <<0, 100, 0, 160, 0>>,
       <<0, 0, 0, 0, 0>>,
       <<0, 90, 0, 160, 10>> >>

DistToProjection ==
    << <<0, 0, 0, 0, 0>>,
       <<0, 30, 0, 30, 30>>,
       <<0, 0, 0, 0, 0>>,
       <<0, 30, 0, 0, 30>>,
       <<0, 0, 0, 0, 0>>,
       <<0, 0, 0, 0, 0>>,
       <<0, 0, 0, 0, 0>>,
       <<0, 0, 0, 0, 0>>,
       <<0, 0, 10, 10, 0>> >>

\* project: the point on `line` nearest to the LRP
project(line, pos) == PointOnLine(line, Projection[pos][line])

\* distance(coords(lrp), candidate.position()).  A snap moves the point along
\* the line; for the positions above a moved point lies on a line through
\* the LRP, so the two distances add up.
CandidateDistance(pos, line, off) ==
    DistToProjection[pos][line] + Abs(off - Projection[pos][line])

\* compute_bearing: bearing of the part of the line after the point (before
\* it, walked backwards, for the last LRP).  L1, L2, L3 head east, L5 heads
\* west, L4 heads north, east, south on its three legs.
compute_bearing(line, off, is_last_lrp) ==
    LET forward ==
            IF line = 5 THEN 270
            ELSE IF line = 4
                 THEN IF is_last_lrp
                      THEN (IF off <= 30 THEN 0 ELSE IF off <= 130 THEN 90 ELSE 180)
                      ELSE (IF off < 30 THEN 0 ELSE IF off < 130 THEN 90 ELSE 180)
            ELSE 90
    IN  IF is_last_lrp THEN (forward + 180) % 360 ELSE forward

\* ------------------------------------------------------------------------
\* Scoring
\* ------------------------------------------------------------------------

angle_difference(angle1, angle2) == ((Abs(angle1 - angle2) + 180) % 360) - 180

\* int(angle / (360 / 32)) % 32 for an angle in whole degrees
angle_sector(angle) ==
    LET a == IF angle < 0 THEN angle + 360 ELSE angle
    IN  ((a * 4) \div 45) % 32

angle_sector_difference(angle1, angle2) ==
    LET sector_diff == Abs(angle_sector(angle1) - angle_sector(angle2))
    IN  IF sector_diff > 16 THEN 32 - sector_diff ELSE sector_diff

\* the four sub-scores, each scaled by ScoreUnit
score_angle_sector_differences(angle1, angle2) ==
    ScoreUnit - (ScoreUnit \div 16) * angle_sector_difference(angle1, angle2)

score_frc(wanted, actual) == ScoreUnit - (ScoreUnit \div 7) * Abs(actual - wanted)

score_geolocation(dist, radius) ==
    IF dist < radius THEN (ScoreUnit * (radius - dist)) \div radius ELSE 0

score_bearing(lrp, cand, is_last_lrp) ==
    score_angle_sector_differences(lrp.bear, compute_bearing(cand.line, cand.off, is_last_lrp))

\* score_lrp_candidate with the weights 1/4 each: 4 * ScoreUnit * score
score_lrp_candidate(lrp, cand, config, is_last_lrp) ==
    score_geolocation(CandidateDistance(lrp.pos, cand.line, cand.off), config.search_radius)
    + (ScoreUnit \div 4) * DEFAULT_FOW_STAND_IN_SCORE[lrp.fow + 1][Fow[cand.line] + 1]
    + score_frc(lrp.frc, Frc[cand.line])
    + score_bearing(lrp, cand, is_last_lrp)

\* ------------------------------------------------------------------------
\* Candidate generation
\* ------------------------------------------------------------------------

\* Node.incoming_line_nodes of example_postgres_map: the (start, end) pairs
\* of the lines WHERE startnode = n
incoming_line_nodes(n) == SelectSeq(<<1, 2, 3, 4, 5>>, LAMBDA l : StartNode[l] = n)
\* Node.outgoing_line_nodes of example_postgres_map: the lines WHERE endnode = n
outgoing_line_nodes(n) == SelectSeq(<<1, 2, 3, 4, 5>>, LAMBDA l : EndNode[l] = n)

is_invalid_node(node) ==
    LET inc == incoming_line_nodes(node)
        out == outgoing_line_nodes(node)
        unique_nodes == {StartNode[out[i]] : i \in 1..Len(out)}
                        \cup {EndNode[out[i]] : i \in 1..Len(out)}
    IN  IF (Len(inc) = 1 /\ Len(out) = 1) \/ (Len(inc) = 2 /\ Len(out) = 2)
        THEN Cardinality(unique_nodes) = 3
        ELSE FALSE

is_valid_node(node) == ~is_invalid_node(node)

\* make_candidate that leaves the candidate at the projection near a junction
make_candidate_no_snap(lrp, line, config, is_last_lrp) ==
    IF Length[line] = 0 THEN <<>>
    ELSE
    LET point_on_line == project(line, lrp.pos)
        snap_start == /\ Abs(distance_from_start(point_on_line)) <= config.candidate_threshold
                      /\ is_valid_node(StartNode[line])
        snap_end   == /\ Abs(distance_to_end(point_on_line)) <= config.candidate_threshold
                      /\ is_valid_node(EndNode[line])
        dropped == IF ~is_last_lrp THEN ~snap_start /\ snap_end
                   ELSE ~snap_end /\ snap_start
        off == point_on_line.off
        candidate == PointOnLine(line, off)
        bearing == compute_bearing(line, off, is_last_lrp)
        bear_diff == angle_difference(bearing, lrp.bear)
        score == score_lrp_candidate(lrp, candidate, config, is_last_lrp)
    IN  IF dropped THEN <<>>
        ELSE IF (is_last_lrp /\ off <= 0) \/ (~is_last_lrp /\ off >= Length[line]) THEN <<>>
        ELSE IF Abs(bear_diff) > config.max_bear_deviation THEN <<>>
        ELSE IF score * config.min_score[2] < config.min_score[1] * 4 * ScoreUnit THEN <<>>
        ELSE <<[line |-> line, off |-> off, score |-> score]>>

\* make_candidate: <<>> when no candidate is made, else <<candidate>>
make_candidate(lrp, line, config, is_last_lrp) ==
    IF Length[line] = 0 THEN <<>>
    ELSE
    LET point_on_line == project(line, lrp.pos)
        snap_start == /\ Abs(distance_from_start(point_on_line)) <= config.candidate_threshold
                      /\ is_valid_node(StartNode[line])
        snap_end   == /\ Abs(distance_to_end(point_on_line)) <= config.candidate_threshold
                      /\ is_valid_node(EndNode[line])
        dropped == IF ~is_last_lrp THEN ~snap_start /\ snap_end
                   ELSE ~snap_end /\ snap_start
        off == IF ~is_last_lrp
               THEN (IF snap_start THEN 0 ELSE point_on_line.off)
               ELSE (IF snap_end THEN Length[line] ELSE point_on_line.off)
        candidate == PointOnLine(line, off)
        bearing == compute_bearing(line, off, is_last_lrp)
        bear_diff == angle_difference(bearing, lrp.bear)
        score == score_lrp_candidate(lrp, candidate, config, is_last_lrp)
    IN  IF dropped THEN <<>>
        ELSE IF (is_last_lrp /\ off <= 0) \/ (~is_last_lrp /\ off >= Length[line]) THEN <<>>
        ELSE IF Abs(bear_diff) > config.max_bear_deviation THEN <<>>
        ELSE IF score * config.min_score[2] < config.min_score[1] * 4 * ScoreUnit THEN <<>>
        ELSE <<[line |-> line, off |-> off, score |-> score]>>

RECURSIVE CandidatesOf(_, _, _, _)
CandidatesOf(lines, lrp, config, is_last_lrp) ==
    IF lines = <<>> THEN <<>>
    ELSE make_candidate(lrp, Head(lines), config, is_last_lrp)
         \o CandidatesOf(Tail(lines), lrp, config, is_last_lrp)

\* The base-map filters a decode may be given: "" is no filter, the other
\* is an SQL condition that keeps the lines of FRC 1
BasemapFilters == {"", "AND frc = 1"}

filter_keeps(and_filter_str, line) == and_filter_str = "" \/ Frc[line] = 1

\* reader.find_lines_close_to(coord, dist, and_filter_str): the lines within
\* dist meters (dist <= 50, the reach of the table) that the filter keeps
lines_close_to(pos, dist, and_filter_str) ==
    SelectSeq(find_lines_close_to[pos],
              LAMBDA line : /\ DistToProjection[pos][line] <= dist
                            /\ filter_keeps(and_filter_str, line))

\* nominate_candidates(lrp, reader, config, observer, is_last_lrp, basemap_filter_str)
nominate_candidates_filtered(lrp, config, is_last_lrp, basemap_filter_str) ==
    CandidatesOf(lines_close_to(lrp.pos, config.search_radius, basemap_filter_str),
                 lrp, config, is_last_lrp)

\* nominate_candidates with basemap_filter_str left at its default
nominate_candidates(lrp, config, is_last_lrp) ==
    nominate_candidates_filtered(lrp, config, is_last_lrp, "")

\* ------------------------------------------------------------------------
\* Routing one candidate pair
\* ------------------------------------------------------------------------

NoRoute == [found |-> FALSE]

\* get_candidate_route with the search started at the wrong node of the
\* start line
get_candidate_route_from_start_node(start, dest, lfrc, maxlenS, scale) ==
    IF start.line = dest.line
    THEN [found |-> TRUE, route |-> Route(start, <<>>, dest)]
    ELSE LET sp == shortest_path(StartNode[start.line], StartNode[dest.line],
                                 lfrc, maxlenS, scale)
         IN  IF sp.found
             THEN [found |-> TRUE, route |-> Route(start, sp.path, dest)]
             ELSE NoRoute

\* get_candidate_route; maxlenS is maxlen scaled by `scale`
get_candidate_route(start, dest, lfrc, maxlenS, scale) ==
    IF start.line = dest.line
    THEN [found |-> TRUE, route |-> Route(start, <<>>, dest)]
    ELSE LET sp == shortest_path(EndNode[start.line], StartNode[dest.line],
                                 lfrc, maxlenS, scale)
         IN  IF sp.found
             THEN [found |-> TRUE, route |-> Route(start, sp.path, dest)]
             ELSE NoRoute

\* minlen and maxlen of match_tail, scaled by the denominator of
\* max_dnp_deviation
DnpScale(config) == config.max_dnp_deviation[2]
minlen(lrp, config) ==
    (DnpScale(config) - config.max_dnp_deviation[1]) * lrp.dnp
    - DnpScale(config) * config.tolerated_dnp_dev
maxlen(lrp, config) ==
    (DnpScale(config) + config.max_dnp_deviation[1]) * lrp.dnp
    + DnpScale(config) * config.tolerated_dnp_dev

\* handleCandidatePair without the check against minlen
handleCandidatePair_no_minlen(source, dest, lowest_frc, minlenS, maxlenS, scale) ==
    LET r == get_candidate_route(source, dest, lowest_frc, maxlenS, scale)
    IN  IF ~r.found THEN NoRoute
        ELSE IF RouteLength(r.route) * scale > maxlenS THEN NoRoute ELSE r

\* handleCandidatePair: the route, or NoRoute when there is none or its
\* length is not accepted
handleCandidatePair(source, dest, lowest_frc, minlenS, maxlenS, scale) ==
    LET r == get_candidate_route(source, dest, lowest_frc, maxlenS, scale)
    IN  IF ~r.found THEN NoRoute
        ELSE LET length == RouteLength(r.route)
             IN  IF length * scale < minlenS \/ length * scale > maxlenS
                 THEN NoRoute
                 ELSE r

\* product(candidates, next_candidates)
RECURSIVE Product(_, _)
Product(xs, ys) ==
    IF xs = <<>> THEN <<>>
    ELSE [i \in 1..Len(ys) |-> <<Head(xs), ys[i]>>] \o Product(Tail(xs), ys)

PairScore(pair) == pair[1].score + pair[2].score

\* pairs.sort(key = score sum, reverse = True): a stable sort, pairs of
\* equal score keep their order
RECURSIVE InsertPair(_, _)
InsertPair(sorted, pair) ==
    IF sorted = <<>> THEN <<pair>>
    ELSE IF PairScore(Head(sorted)) >= PairScore(pair)
         THEN <<Head(sorted)>> \o InsertPair(Tail(sorted), pair)
         ELSE <<pair>> \o sorted

\* the pairs left in the order of product(candidates, next_candidates)
SortPairs_unsorted(sorted, pairs) == sorted \o pairs

RECURSIVE SortPairs(_, _)
SortPairs(sorted, pairs) ==
    IF pairs = <<>> THEN sorted
    ELSE SortPairs(InsertPair(sorted, Head(pairs)), Tail(pairs))

\* ------------------------------------------------------------------------
\* Assemblers
\* ------------------------------------------------------------------------

\* get_lines: the lines of all parts, a line repeated at a seam kept once
RECURSIVE AppendLines(_, _)
AppendLines(result, lines) ==
    IF lines = <<>> THEN result
    ELSE LET line == Head(lines)
             kept == IF result # <<>> /\ Last(result) = line THEN Front(result) ELSE result
         IN  AppendLines(Append(kept, line), Tail(lines))

RECURSIVE GetLinesFrom(_, _)
GetLinesFrom(result, parts) ==
    IF parts = <<>> THEN result
    ELSE GetLinesFrom(AppendLines(result, RouteLines(Head(parts))), Tail(parts))

\* the lines of all parts one after the other, seams included
RECURSIVE get_lines_concat(_)
get_lines_concat(line_location_path) ==
    IF line_location_path = <<>> THEN <<>>
    ELSE RouteLines(Head(line_location_path)) \o get_lines_concat(Tail(line_location_path))

get_lines(line_location_path) == GetLinesFrom(<<>>, line_location_path)

\* PointOnLine(line, p.relative_offset): the relative offset of p on `line`
AtRelativeOffsetOf(line, p) ==
    PointOnLine(line, (p.off * Length[line]) \div Length[p.line])

combine_routes(line_location_path) ==
    LET path == get_lines(line_location_path)
        start == AtRelativeOffsetOf(Head(path), Head(line_location_path).start)
        rest == Tail(path)
        last_end == Last(line_location_path).end
    IN  IF rest # <<>>
        THEN [start |-> start, path |-> Front(rest),
              end |-> AtRelativeOffsetOf(Last(rest), last_end)]
        ELSE [start |-> start, path |-> <<>>,
              end |-> AtRelativeOffsetOf(start.line, last_end)]

OffsetExceedsPath == [ok |-> FALSE]

\* the first loop of remove_offsets: drop whole lines at the front
RECURSIVE DropFront(_, _)
DropFront(lines, remaining_poff) ==
    IF remaining_poff >= Length[Head(lines)]
    THEN IF Tail(lines) = <<>> THEN OffsetExceedsPath
         ELSE DropFront(Tail(lines), remaining_poff - Length[Head(lines)])
    ELSE [ok |-> TRUE, lines |-> lines, remaining |-> remaining_poff]

\* the second loop of remove_offsets: drop whole lines at the back
RECURSIVE DropBack(_, _)
DropBack(lines, remaining_noff) ==
    IF remaining_noff >= Length[Last(lines)]
    THEN IF Front(lines) = <<>> THEN OffsetExceedsPath
         ELSE DropBack(Front(lines), remaining_noff - Length[Last(lines)])
    ELSE [ok |-> TRUE, lines |-> lines, remaining |-> remaining_noff]

\* remove_offsets that leaves out the route's own start offset
remove_offsets_without_start_offset(path, p_off, n_off) ==
    LET front == DropFront(RouteLines(path), p_off)
    IN  IF ~front.ok THEN OffsetExceedsPath
        ELSE LET back == DropBack(front.lines, n_off + absolute_end_offset(path))
             IN  IF ~back.ok THEN OffsetExceedsPath
                 ELSE LET start_line == Head(back.lines)
                          rest == Tail(back.lines)
                          end_line == IF rest # <<>> THEN Last(rest) ELSE start_line
                          inner == IF rest # <<>> THEN Front(rest) ELSE <<>>
                      IN  [ok |-> TRUE,
                           route |->
                             [start |-> PointOnLine(start_line, front.remaining),
                              path |-> inner,
                              end |-> PointOnLine(end_line, Length[end_line] - back.remaining)]]

\* remove_offsets(path, p_off, n_off)
remove_offsets(path, p_off, n_off) ==
    LET front == DropFront(RouteLines(path), p_off + absolute_start_offset(path))
    IN  IF ~front.ok THEN OffsetExceedsPath
        ELSE LET back == DropBack(front.lines, n_off + absolute_end_offset(path))
             IN  IF ~back.ok THEN OffsetExceedsPath
                 ELSE LET start_line == Head(back.lines)
                          rest == Tail(back.lines)
                          end_line == IF rest # <<>> THEN Last(rest) ELSE start_line
                          inner == IF rest # <<>> THEN Front(rest) ELSE <<>>
                      IN  [ok |-> TRUE,
                           route |->
                             [start |-> PointOnLine(start_line, front.remaining),
                              path |-> inner,
                              end |-> PointOnLine(end_line, Length[end_line] - back.remaining)]]

\* relative offsets of a reference are num / OffsDen
OffsDen == 2
Fraction(num, x) == (num * x) \div OffsDen

\* build_line_location
build_line_location(path, poffs, noffs) ==
    remove_offsets(combine_routes(path),
                   Fraction(poffs, RouteLength(Head(path))),
                   Fraction(noffs, RouteLength(Last(path))))

\* the loop of point_along_linelocation over route.path_inbetween
RECURSIVE WalkInbetween(_, _)
WalkInbetween(roads, leftover_length) ==
    IF roads = <<>> THEN [hit |-> FALSE, leftover |-> leftover_length]
    ELSE IF leftover_length > Length[Head(roads)]
         THEN WalkInbetween(Tail(roads), leftover_length - Length[Head(roads)])
         ELSE [hit |-> TRUE, line |-> Head(roads), offset |-> leftover_length]

\* point_along_linelocation(route, length)
point_along_linelocation(route, length) ==
    LET leftover1 == length - (Length[route.start.line] - route.start.off)
    IN  IF leftover1 < 0
        THEN [ok |-> TRUE, line |-> route.start.line, offset |-> route.start.off + length]
        ELSE LET walk == WalkInbetween(route.path, leftover1)
             IN  IF walk.hit
                 THEN [ok |-> TRUE, line |-> walk.line, offset |-> walk.offset]
                 ELSE LET end_offset == route.end.off
                          leftover2 == walk.leftover - end_offset
                      IN  IF leftover2 < 0
                          THEN [ok |-> TRUE, line |-> route.end.line, offset |-> end_offset]
                          ELSE OffsetExceedsPath

\* decode_pointalongline: the offset is a fraction of the path's length
pointalongline_offset(path, poffs) == Fraction(poffs, RouteLength(path))

\* decode_poi_with_accesspoint: the offset is a fraction of the length of
\* the path's lines
poi_offset(path, poffs) == Fraction(poffs, path_length(get_lines(<<path>>)))

\* ------------------------------------------------------------------------
\* The references that are decoded
\* ------------------------------------------------------------------------

Lrp(pos, bear) == [pos |-> pos, frc |-> 1, fow |-> 3, bear |-> bear]

\* LRPs by their place in the reference
FirstHeads == {Lrp(1, 90), Lrp(2, 90), Lrp(4, 90), Lrp(9, 270), Lrp(8, 90)}
MidHeads   == {Lrp(4, 90), Lrp(7, 90)}
LastHeads  == {Lrp(1, 270), Lrp(2, 270), Lrp(4, 270), Lrp(5, 270), Lrp(7, 270), Lrp(8, 270)}

\* <<lfrcnp, dnp>> of the first LRP and of an LRP in the middle
FirstSegments == {<<3, 0>>, <<3, 50>>, <<3, 100>>, <<3, 250>>, <<1, 250>>}
MidSegments   == {<<3, 50>>, <<3, 100>>, <<1, 250>>}

WithSegment(head, seg) ==
    [pos |-> head.pos, frc |-> head.frc, fow |-> head.fow, bear |-> head.bear,
     lfrcnp |-> seg[1], dnp |-> seg[2]]

\* the terminal LRP carries neither LFRCNP nor DNP
Terminal(head) == WithSegment(head, <<7, 0>>)

FirstLrps == {WithSegment(h, s) : h \in FirstHeads, s \in FirstSegments}
MidLrps   == {WithSegment(h, s) : h \in MidHeads, s \in MidSegments}
LastLrps  == {Terminal(h) : h \in LastHeads}

References(n) ==
    {r \in [1..n -> FirstLrps \cup MidLrps \cup LastLrps] :
        /\ r[1] \in FirstLrps
        /\ r[n] \in LastLrps
        /\ \A i \in 2..(n - 1) : r[i] \in MidLrps}

Configs == {[DEFAULT_CONFIG EXCEPT !.timeout = t] : t \in {0, MaxElapsed}}

\* ------------------------------------------------------------------------
\* The observer: None, or a SimpleObserver with what it has collected
\* ------------------------------------------------------------------------

None == [type |-> "None"]
SimpleObserver ==
    [type |-> "SimpleObserver", candidates |-> <<>>, attempted_routes |-> <<>>,
     failed_matches |-> <<>>]

\* the methods of SimpleObserver with the number of arguments each takes
SimpleObserverMethods ==
    [on_candidates_found |-> 2, on_route_fail |-> 4, on_route_success |-> 5,
     on_matching_fail |-> 4]

ObserverCall(method, args) == [method |-> method, args |-> args]

\* what a method of SimpleObserver does to the observer
SimpleObserverDoes(obs, c) ==
    IF c.method = "on_candidates_found"
    THEN [obs EXCEPT !.candidates = Append(@, <<c.args[1], c.args[2]>>)]
    ELSE IF c.method = "on_route_fail"
    THEN [obs EXCEPT !.attempted_routes =
            Append(@, [from_lrp |-> c.args[1], to_lrp |-> c.args[2],
                       from_line |-> c.args[3], to_line |-> c.args[4],
                       success |-> FALSE])]
    ELSE IF c.method = "on_route_success"
    THEN [obs EXCEPT !.attempted_routes =
            Append(@, [from_lrp |-> c.args[1], to_lrp |-> c.args[2],
                       from_line |-> c.args[3], to_line |-> c.args[4],
                       success |-> TRUE, path |-> c.args[5]])]
    ELSE [obs EXCEPT !.failed_matches =
            Append(@, [from_lrp |-> c.args[1], to_lrp |-> c.args[2],
                       from_candidate |-> c.args[3], to_candidate |-> c.args[4]])]

\* `if observer is not None: observer.method(*args)`: the error the call
\* raises ("none" when it returns) and the observer after it
notify(obs, c) ==
    IF obs = None THEN [raised |-> "none", observer |-> obs]
    ELSE IF c.method \notin DOMAIN SimpleObserverMethods
    THEN [raised |-> "AttributeError", observer |-> obs]
    ELSE IF Len(c.args) # SimpleObserverMethods[c.method]
    THEN [raised |-> "TypeError", observer |-> obs]
    ELSE [raised |-> "none", observer |-> SimpleObserverDoes(obs, c)]

\* the calls in a row, up to the first that raises
RECURSIVE notify_all(_, _)
notify_all(obs, calls) ==
    IF calls = <<>> THEN [raised |-> "none", observer |-> obs]
    ELSE LET n == notify(obs, Head(calls))
         IN  IF n.raised # "none" THEN n ELSE notify_all(n.observer, Tail(calls))

\* the observer call make_candidate makes for a line: none when the line is
\* given up before its bearing is looked at, else on_candidate_rejected or
\* on_candidate_found
make_candidate_calls(lrp, line, cfg, is_last_lrp) ==
    IF Length[line] = 0 THEN <<>>
    ELSE
    LET point_on_line == project(line, lrp.pos)
        snap_start == /\ Abs(distance_from_start(point_on_line)) <= cfg.candidate_threshold
                      /\ is_valid_node(StartNode[line])
        snap_end   == /\ Abs(distance_to_end(point_on_line)) <= cfg.candidate_threshold
                      /\ is_valid_node(EndNode[line])
        dropped == IF ~is_last_lrp THEN ~snap_start /\ snap_end
                   ELSE ~snap_end /\ snap_start
        off == IF ~is_last_lrp
               THEN (IF snap_start THEN 0 ELSE point_on_line.off)
               ELSE (IF snap_end THEN Length[line] ELSE point_on_line.off)
        candidate == PointOnLine(line, off)
        made == make_candidate(lrp, line, cfg, is_last_lrp)
    IN  IF dropped THEN <<>>
        ELSE IF (is_last_lrp /\ off <= 0) \/ (~is_last_lrp /\ off >= Length[line]) THEN <<>>
        ELSE IF made = <<>>
             THEN <<ObserverCall("on_candidate_rejected", <<lrp, candidate, "reason">>)>>
             ELSE <<ObserverCall("on_candidate_found", <<lrp, made[1]>>)>>

\* the observer calls of nominate_candidates, line by line
RECURSIVE nominate_candidates_calls(_, _, _, _)
nominate_candidates_calls(lines, lrp, cfg, is_last_lrp) ==
    IF lines = <<>> THEN <<>>
    ELSE make_candidate_calls(lrp, Head(lines), cfg, is_last_lrp)
         \o nominate_candidates_calls(Tail(lines), lrp, cfg, is_last_lrp)

\* nominate_candidates(lrp, reader, config, observer, is_last_lrp, filter) as
\* the observer sees it
nominate_candidates_observed(obs, lrp, cfg, is_last_lrp, filter) ==
    notify_all(obs, nominate_candidates_calls(
                        lines_close_to(lrp.pos, cfg.search_radius, filter),
                        lrp, cfg, is_last_lrp))

\* the observer call handleCandidatePair makes for a pair of candidates
handleCandidatePair_call(current, next_lrp, source, dest, lowest_frc, minlenS, maxlenS, scale) ==
    LET r == get_candidate_route(source, dest, lowest_frc, maxlenS, scale)
    IN  IF ~r.found
        THEN ObserverCall("on_route_fail",
                 <<current, next_lrp, source, dest, "No path for candidate found">>)
        ELSE LET length == RouteLength(r.route)
             IN  IF length * scale < minlenS \/ length * scale > maxlenS
                 THEN ObserverCall("on_route_fail",
                          <<current, next_lrp, source, dest,
                            "Shortest path deviation from DNP is too large">>)
                 ELSE ObserverCall("on_route_success",
                          <<current, next_lrp, source, dest, r.route>>)

\* ------------------------------------------------------------------------
\* State
\* ------------------------------------------------------------------------

VARIABLES
    lrps,      \* reference.points
    basemap_filter_str,  \* the filter dereference_path is called with
    config,    \* the Config of the decode
    pc,        \* "start", "enter", "loop", "assemble", "done"
    call,      \* the arguments of the match_tail call being entered
    stack,     \* the match_tail frames, outermost first
    elapsed,   \* time.time() - start_time, in ticks
    routes,    \* what dereference_path returned
    result,    \* what decode returned or raised
    observer,  \* the observer handed to decode
    reader_calls   \* how often reader.find_lines_close_to has been called

vars == <<lrps, basemap_filter_str, config, pc, call, stack, elapsed, routes, result,
          observer, reader_calls>>

NoCall == [current |-> 0, candidates |-> <<>>]
NoResult == [kind |-> "none"]
Raised(kind) == [kind |-> kind]

Init ==
    /\ \E n \in 2..MaxLrps : lrps \in References(n)
    /\ basemap_filter_str \in BasemapFilters
    /\ config \in Configs
    /\ pc = "start"
    /\ call = NoCall
    /\ stack = <<>>
    /\ elapsed = 0
    /\ routes = <<>>
    /\ result = NoResult
    /\ reader_calls = 0
    /\ observer = None

\* dereference_path that does not search again without the filter
first_candidates_of_no_retry(first_lrp, cfg, filter) ==
    nominate_candidates_filtered(first_lrp, cfg, FALSE, filter)

\* the first candidates of dereference_path: with the filter, and again
\* without it when the filter left none
first_candidates_of(first_lrp, cfg, filter) ==
    LET filtered == nominate_candidates_filtered(first_lrp, cfg, FALSE, filter)
    IN  IF filtered = <<>> /\ filter # ""
        THEN nominate_candidates(first_lrp, cfg, FALSE)
        ELSE filtered

\* the searches of dereference_path for the first LRP as the observer sees
\* them: with the filter, and again without it when the filter left none
first_candidates_observed(obs, first_lrp, cfg, filter) ==
    LET first == nominate_candidates_observed(obs, first_lrp, cfg, FALSE, filter)
    IN  IF /\ first.raised = "none"
           /\ nominate_candidates_filtered(first_lrp, cfg, FALSE, filter) = <<>>
           /\ filter # ""
        THEN nominate_candidates_observed(first.observer, first_lrp, cfg, FALSE, "")
        ELSE first

\* how often dereference_path calls find_lines_close_to for the first LRP
first_candidates_searches(obs, first_lrp, cfg, filter) ==
    IF /\ nominate_candidates_observed(obs, first_lrp, cfg, FALSE, filter).raised = "none"
       /\ nominate_candidates_filtered(first_lrp, cfg, FALSE, filter) = <<>>
       /\ filter # ""
    THEN 2 ELSE 1

\* dereference_path: the candidates of the first LRP, then match_tail
DereferencePath ==
    /\ pc = "start"
    /\ LET first_candidates == first_candidates_of(lrps[1], config, basemap_filter_str)
           seen == first_candidates_observed(observer, lrps[1], config, basemap_filter_str)
       IN  /\ observer' = seen.observer
           /\ IF seen.raised # "none"
              THEN /\ pc' = "done"
                   /\ result' = Raised(seen.raised)
                   /\ call' = call
              ELSE IF first_candidates = <<>>
              THEN /\ pc' = "done"
                   /\ result' = Raised("NoFirstCandidates")
                   /\ call' = call
              ELSE /\ pc' = "enter"
                   /\ call' = [current |-> 1, candidates |-> first_candidates]
                   /\ result' = result
    /\ reader_calls' = reader_calls
                       + first_candidates_searches(observer, lrps[1], config, basemap_filter_str)
    /\ UNCHANGED <<lrps, basemap_filter_str, config, stack, elapsed, routes>>

\* time passes: a later reading of the clock
Later(t) == {u \in t..(t + 1) : u <= MaxElapsed}

\* match_tail whose error for a terminal LRP without candidates is an
\* LRDecodeError: the calling frame catches it and goes on with its next pair
EnterMatchTail_last_caught ==
    /\ pc = "enter"
    /\ \E now \in Later(elapsed) :
        /\ elapsed' = now
        /\ IF now > config.timeout
           THEN /\ pc' = "done"
                /\ result' = Raised("Timeout")
                /\ stack' = <<>>
                /\ observer' = observer
                /\ reader_calls' = reader_calls
           ELSE LET last_lrp == call.current + 1 = Len(lrps)
                    next_candidates ==
                        nominate_candidates(lrps[call.current + 1], config, last_lrp)
                    seen == nominate_candidates_observed(observer, lrps[call.current + 1],
                                                         config, last_lrp, "")
                IN  /\ observer' = seen.observer
                    /\ reader_calls' = reader_calls + 1
                    /\ IF seen.raised # "none"
                       THEN /\ pc' = "done"
                            /\ result' = Raised(seen.raised)
                            /\ stack' = <<>>
                       ELSE IF last_lrp /\ next_candidates = <<>>
                        THEN IF stack = <<>>
                             THEN /\ pc' = "done"
                                  /\ result' = Raised("NoLastCandidates")
                                  /\ stack' = <<>>
                             ELSE /\ pc' = "loop"
                                  /\ result' = result
                                  /\ stack' = [stack EXCEPT ![Len(stack)].k = @ + 1,
                                                            ![Len(stack)].route = NoRoute]
                        ELSE /\ pc' = "loop"
                             /\ result' = result
                             /\ stack' = Append(stack,
                                   [current |-> call.current,
                                    candidates |-> call.candidates,
                                    next_candidates |-> next_candidates,
                                    pairs |-> SortPairs(<<>>,
                                                Product(call.candidates, next_candidates)),
                                    k |-> 1,
                                    route |-> NoRoute])
    /\ call' = NoCall
    /\ UNCHANGED <<lrps, basemap_filter_str, config, routes>>

\* match_tail whose time-out is an LRDecodeError: the calling frame catches
\* it and goes on with its next pair
EnterMatchTail_timeout_caught ==
    /\ pc = "enter"
    /\ \E now \in Later(elapsed) :
        /\ elapsed' = now
        /\ IF now > config.timeout
           THEN /\ IF stack = <<>>
                   THEN /\ pc' = "done"
                        /\ result' = Raised("Timeout")
                        /\ stack' = <<>>
                   ELSE /\ pc' = "loop"
                        /\ result' = result
                        /\ stack' = [stack EXCEPT ![Len(stack)].k = @ + 1,
                                                  ![Len(stack)].route = NoRoute]
                /\ observer' = observer
                /\ reader_calls' = reader_calls
           ELSE LET last_lrp == call.current + 1 = Len(lrps)
                    next_candidates ==
                        nominate_candidates(lrps[call.current + 1], config, last_lrp)
                    seen == nominate_candidates_observed(observer, lrps[call.current + 1],
                                                         config, last_lrp, "")
                IN  /\ observer' = seen.observer
                    /\ reader_calls' = reader_calls + 1
                    /\ IF seen.raised # "none"
                       THEN /\ pc' = "done"
                            /\ result' = Raised(seen.raised)
                            /\ stack' = <<>>
                       ELSE IF last_lrp /\ next_candidates = <<>>
                        THEN /\ pc' = "done"
                             /\ result' = Raised("NoLastCandidates")
                             /\ stack' = <<>>
                        ELSE /\ pc' = "loop"
                             /\ result' = result
                             /\ stack' = Append(stack,
                                   [current |-> call.current,
                                    candidates |-> call.candidates,
                                    next_candidates |-> next_candidates,
                                    pairs |-> SortPairs(<<>>,
                                                Product(call.candidates, next_candidates)),
                                    k |-> 1,
                                    route |-> NoRoute])
    /\ call' = NoCall
    /\ UNCHANGED <<lrps, basemap_filter_str, config, routes>>


\* match_tail up to its loop: the time check, the candidates of the next
\* LRP, the sorted pairs.  An error raised here is no LRDecodeError: no
\* frame catches it.
EnterMatchTail ==
    /\ pc = "enter"
    /\ \E now \in Later(elapsed) :
        /\ elapsed' = now
        /\ IF now > config.timeout
           THEN /\ pc' = "done"
                /\ result' = Raised("Timeout")
                /\ stack' = <<>>
                /\ observer' = observer
                /\ reader_calls' = reader_calls
           ELSE LET last_lrp == call.current + 1 = Len(lrps)
                    next_candidates ==
                        nominate_candidates(lrps[call.current + 1], config, last_lrp)
                    seen == nominate_candidates_observed(observer, lrps[call.current + 1],
                                                         config, last_lrp, "")
                IN  /\ observer' = seen.observer
                    /\ reader_calls' = reader_calls + 1
                    /\ IF seen.raised # "none"
                       THEN /\ pc' = "done"
                            /\ result' = Raised(seen.raised)
                            /\ stack' = <<>>
                       ELSE IF last_lrp /\ next_candidates = <<>>
                        THEN /\ pc' = "done"
                             /\ result' = Raised("NoLastCandidates")
                             /\ stack' = <<>>
                        ELSE /\ pc' = "loop"
                             /\ result' = result
                             /\ stack' = Append(stack,
                                   [current |-> call.current,
                                    candidates |-> call.candidates,
                                    next_candidates |-> next_candidates,
                                    pairs |-> SortPairs(<<>>,
                                                Product(call.candidates, next_candidates)),
                                    k |-> 1,
                                    route |-> NoRoute])
    /\ call' = NoCall
    /\ UNCHANGED <<lrps, basemap_filter_str, config, routes>>

Top == stack[Len(stack)]

\* the route match_tail computes for the pair of frame f it is at
PairRoute(f) ==
    LET current == lrps[f.current]
    IN  handleCandidatePair(f.pairs[f.k][1], f.pairs[f.k][2],
                            config.tolerated_lfrc[current.lfrcnp],
                            minlen(current, config), maxlen(current, config),
                            DnpScale(config))

\* the observer call handleCandidatePair makes for that pair
PairCall(f) ==
    LET current == lrps[f.current]
    IN  handleCandidatePair_call(current, lrps[f.current + 1],
                                 f.pairs[f.k][1], f.pairs[f.k][2],
                                 config.tolerated_lfrc[current.lfrcnp],
                                 minlen(current, config), maxlen(current, config),
                                 DnpScale(config))

\* observer.on_matching_fail(...) as match_tail calls it for frame f
MatchingFailCall(f) ==
    ObserverCall("on_matching_fail",
                 <<lrps[f.current], lrps[f.current + 1], f.candidates, f.next_candidates,
                   "No candidate pair matches">>)

\* one iteration of the loop of match_tail over the pairs
HandlePair ==
    /\ pc = "loop"
    /\ Top.k <= Len(Top.pairs)
    /\ elapsed' \in Later(elapsed)
    /\ LET f == Top
           r == PairRoute(f)
           seen == notify(observer, PairCall(f))
           last_lrp == f.current + 1 = Len(lrps)
           d == Len(stack)
       IN  /\ observer' = seen.observer
           /\ IF seen.raised # "none"
              THEN /\ pc' = "done"
                   /\ result' = Raised(seen.raised)
                   /\ stack' = <<>>
                   /\ UNCHANGED <<call, routes>>
              ELSE IF ~r.found
              THEN /\ stack' = [stack EXCEPT ![d].k = f.k + 1]
                   /\ UNCHANGED <<pc, call, routes, result>>
              ELSE IF last_lrp
              THEN /\ routes' = [i \in 1..d |->
                                    IF i = d THEN r.route ELSE stack[i].route.route]
                   /\ pc' = "assemble"
                   /\ stack' = <<>>
                   /\ UNCHANGED <<call, result>>
              ELSE /\ stack' = [stack EXCEPT ![d].route = r]
                   /\ call' = [current |-> f.current + 1,
                               candidates |-> <<f.pairs[f.k][2]>>]
                   /\ pc' = "enter"
                   /\ UNCHANGED <<routes, result>>
    /\ UNCHANGED <<lrps, basemap_filter_str, config, reader_calls>>

\* match_tail whose caller does not catch the LRDecodeError: no backtracking
MatchingFail_no_backtracking ==
    /\ pc = "loop"
    /\ stack[Len(stack)].k > Len(stack[Len(stack)].pairs)
    /\ LET seen == notify(observer, MatchingFailCall(stack[Len(stack)]))
       IN  /\ observer' = seen.observer
           /\ result' = IF seen.raised # "none" THEN Raised(seen.raised)
                        ELSE Raised("NoMatch")
    /\ pc' = "done"
    /\ stack' = <<>>
    /\ UNCHANGED <<lrps, basemap_filter_str, config, call, elapsed, routes, reader_calls>>

\* the end of match_tail: no pair is left.  The LRDecodeError is caught by
\* the calling frame, which goes on with its next pair.
MatchingFail ==
    /\ pc = "loop"
    /\ Top.k > Len(Top.pairs)
    /\ LET seen == notify(observer, MatchingFailCall(Top))
       IN  /\ observer' = seen.observer
           /\ IF seen.raised # "none"
              THEN /\ pc' = "done"
                   /\ result' = Raised(seen.raised)
                   /\ stack' = <<>>
              ELSE IF Len(stack) = 1
              THEN /\ pc' = "done"
                   /\ result' = Raised("NoMatch")
                   /\ stack' = <<>>
              ELSE /\ pc' = pc
                   /\ result' = result
                   /\ stack' = [Front(stack) EXCEPT ![Len(stack) - 1].k = @ + 1,
                                                    ![Len(stack) - 1].route = NoRoute]
    /\ UNCHANGED <<lrps, basemap_filter_str, config, call, elapsed, routes, reader_calls>>

OffsNums == 0..MaxOffsNum

\* decode_line: build_line_location on the path
DecodeLine ==
    /\ pc = "assemble"
    /\ \E poffs \in OffsNums, noffs \in OffsNums :
        LET loc == build_line_location(routes, poffs, noffs)
        IN  result' = IF loc.ok
                      THEN [kind |-> "LineLocation", poffs |-> poffs, noffs |-> noffs,
                            route |-> loc.route]
                      ELSE [kind |-> "OffsetExceedsPath", poffs |-> poffs, noffs |-> noffs]
    /\ pc' = "done"
    /\ UNCHANGED <<lrps, basemap_filter_str, config, call, stack, elapsed, routes, observer, reader_calls>>

PointResult(kind, poffs, at) ==
    IF at.ok
    THEN [kind |-> kind, poffs |-> poffs, line |-> at.line, offset |-> at.offset]
    ELSE [kind |-> "OffsetExceedsPath", poffs |-> poffs, of |-> kind]

\* decode_pointalongline
DecodePointAlongLine ==
    /\ pc = "assemble"
    /\ basemap_filter_str = ""
    /\ \E poffs \in OffsNums :
        LET path == combine_routes(routes)
        IN  result' = PointResult("PointAlongLine", poffs,
                         point_along_linelocation(path, pointalongline_offset(path, poffs)))
    /\ pc' = "done"
    /\ UNCHANGED <<lrps, basemap_filter_str, config, call, stack, elapsed, routes, observer, reader_calls>>

\* Coordinates(lon, lat)
Coordinates(lon, lat) == [lon |-> lon, lat |-> lat]

\* longitudes and latitudes of a reference, in thousandths of a degree
Lons == {13414, 52526}
Lats == {13414, 52526}

\* the poi with longitude and latitude changing places
poi_coordinates_swapped(reference) == Coordinates(reference.lat, reference.lon)

\* the poi of the PoiWithAccessPoint that decode_poi_with_accesspoint returns
poi_coordinates(reference) == Coordinates(reference.lon, reference.lat)

PoiResult(reference, at) ==
    IF at.ok
    THEN [kind |-> "PoiWithAccessPoint", poffs |-> reference.poffs, line |-> at.line,
          offset |-> at.offset, poi |-> poi_coordinates(reference),
          reference |-> reference]
    ELSE [kind |-> "OffsetExceedsPath", poffs |-> reference.poffs,
          of |-> "PoiWithAccessPoint"]

\* decode_poi_with_accesspoint
DecodePoiWithAccessPoint ==
    /\ pc = "assemble"
    /\ basemap_filter_str = ""
    /\ \E poffs \in OffsNums, lon \in Lons, lat \in Lats :
        LET path == combine_routes(routes)
            reference == [poffs |-> poffs, lon |-> lon, lat |-> lat]
        IN  result' = PoiResult(reference,
                         point_along_linelocation(path, poi_offset(path, poffs)))
    /\ pc' = "done"
    /\ UNCHANGED <<lrps, basemap_filter_str, config, call, stack, elapsed, routes, observer, reader_calls>>

Next ==
    \/ DereferencePath
    \/ EnterMatchTail
    \/ HandlePair
    \/ MatchingFail
    \/ DecodeLine
    \/ DecodePointAlongLine
    \/ DecodePoiWithAccessPoint

Spec == Init /\ [][Next]_vars

\* ------------------------------------------------------------------------
\* decode(reference, reader, observer = ...): called without an observer
\* or with a new SimpleObserver
\* ------------------------------------------------------------------------

InitObserver ==
    /\ \E n \in 2..MaxLrps : lrps \in References(n)
    /\ basemap_filter_str \in BasemapFilters
    /\ config \in Configs
    /\ pc = "start"
    /\ call = NoCall
    /\ stack = <<>>
    /\ elapsed = 0
    /\ routes = <<>>
    /\ result = NoResult
    /\ reader_calls = 0
    /\ observer \in {None, SimpleObserver}

SpecObserver == InitObserver /\ [][Next]_vars

\* ------------------------------------------------------------------------
\* decode(reference, reader, config, observer): the reference is a line,
\* point-along-line or POI reference (its kind shows when the path is
\* assembled) or a GeoCoordinateLocationReference
\* ------------------------------------------------------------------------

GeoCoordinateLocationReference(point) ==
    [type |-> "GeoCoordinateLocationReference", point |-> point]

GeoReferences ==
    {GeoCoordinateLocationReference(Coordinates(lon, lat)) : lon \in Lons, lat \in Lats}

IsGeoCoordinate == DOMAIN call = {"reference"}

InitDecode ==
    /\ basemap_filter_str \in BasemapFilters
    /\ config \in Configs
    /\ \/ /\ \E n \in 2..MaxLrps : lrps \in References(n)
          /\ pc = "start"
          /\ call = NoCall
       \/ /\ lrps = <<>>
          /\ pc = "decode"
          /\ call \in [reference : GeoReferences]
    /\ stack = <<>>
    /\ elapsed = 0
    /\ routes = <<>>
    /\ result = NoResult
    /\ reader_calls = 0
    /\ observer \in {None, SimpleObserver}

\* decode that knows no GeoCoordinateLocationReference and ends in its last
\* branch
DecodeGeoCoordinate_unsupported ==
    /\ pc = "decode"
    /\ IsGeoCoordinate
    /\ result' = Raised("LRDecodeError")
    /\ pc' = "done"
    /\ UNCHANGED <<lrps, basemap_filter_str, config, call, stack, elapsed, routes,
                   observer, reader_calls>>

\* decode of a GeoCoordinateLocationReference: return reference.point
DecodeGeoCoordinate ==
    /\ pc = "decode"
    /\ IsGeoCoordinate
    /\ result' = [kind |-> "Coordinates", point |-> call.reference.point]
    /\ pc' = "done"
    /\ UNCHANGED <<lrps, basemap_filter_str, config, call, stack, elapsed, routes,
                   observer, reader_calls>>

NextDecode == Next \/ DecodeGeoCoordinate

SpecDecode == InitDecode /\ [][NextDecode]_vars

\* ------------------------------------------------------------------------
\* handleCandidatePair on its own: called for two LRPs, a candidate of each
\* and a new SimpleObserver
\* ------------------------------------------------------------------------

SeqRange(xs) == {xs[i] : i \in 1..Len(xs)}

InitPair ==
    /\ lrps \in References(2)
    /\ basemap_filter_str = ""
    /\ config = DEFAULT_CONFIG
    /\ pc = "pair"
    /\ \E source \in SeqRange(nominate_candidates(lrps[1], config, FALSE)),
          dest \in SeqRange(nominate_candidates(lrps[2], config, TRUE)) :
          call = [source |-> source, dest |-> dest]
    /\ stack = <<>>
    /\ elapsed = 0
    /\ routes = <<>>
    /\ result = NoResult
    /\ reader_calls = 0
    /\ observer = SimpleObserver

\* handleCandidatePair((current, next_lrp), (source, dest), observer, lfrc,
\* minlen, maxlen, equal_area): the route, None, or the error of the observer
HandleCandidatePair ==
    /\ pc = "pair"
    /\ LET current == lrps[1]
           lfrc == config.tolerated_lfrc[current.lfrcnp]
           r == handleCandidatePair(call.source, call.dest, lfrc,
                                    minlen(current, config), maxlen(current, config),
                                    DnpScale(config))
           seen == notify(observer,
                          handleCandidatePair_call(current, lrps[2], call.source, call.dest,
                              lfrc, minlen(current, config), maxlen(current, config),
                              DnpScale(config)))
       IN  /\ observer' = seen.observer
           /\ result' = IF seen.raised # "none" THEN Raised(seen.raised)
                        ELSE IF r.found THEN [kind |-> "Route", route |-> r.route]
                        ELSE [kind |-> "None"]
    /\ pc' = "done"
    /\ UNCHANGED <<lrps, basemap_filter_str, config, call, stack, elapsed, routes, reader_calls>>

NextPair == HandleCandidatePair

SpecPair == InitPair /\ [][NextPair]_vars

\* ------------------------------------------------------------------------
\* shortest_path on its own: called with any two nodes, any lowest FRC of
\* the line filter and a maxlen (the last value stands for float("inf"))
\* ------------------------------------------------------------------------

inf == path_length(<<1, 2, 3, 4, 5>>) + 1
MaxLens == {50 * k : k \in 0..MaxLenSteps} \cup {inf}

InitAStar ==
    /\ lrps = <<>>
    /\ basemap_filter_str = ""
    /\ config = DEFAULT_CONFIG
    /\ pc = "astar"
    /\ call \in [start : Nodes, end : Nodes, lfrc : 0..3, maxlen : MaxLens]
    /\ stack = <<>>
    /\ elapsed = 0
    /\ routes = <<>>
    /\ result = NoResult
    /\ reader_calls = 0
    /\ observer = None

\* shortest_path(start, end, linefilter, maxlen): the path, or PathNotFound
ShortestPath ==
    /\ pc = "astar"
    /\ LET sp == shortest_path(call.start, call.end, call.lfrc, call.maxlen, 1)
       IN  result' = IF sp.found THEN [kind |-> "Path", path |-> sp.path]
                     ELSE Raised("PathNotFound")
    /\ pc' = "done"
    /\ UNCHANGED <<lrps, basemap_filter_str, config, call, stack, elapsed, routes, observer, reader_calls>>

NextAStar == ShortestPath

SpecAStar == InitAStar /\ [][NextAStar]_vars

\* ------------------------------------------------------------------------
\* The matcher as a function of the reference and the config, for a clock
\* that never exceeds config.timeout: what match_tail and dereference_path
\* return ([ok |-> TRUE, routes]) or raise ([ok |-> FALSE, kind])
\* ------------------------------------------------------------------------

Failure(kind) == [ok |-> FALSE, kind |-> kind]

RECURSIVE match_tail(_, _, _, _)
RECURSIVE match_pairs(_, _, _, _)

\* match_pairs giving up after the best pair (no other pair is tried)
match_pairs_best_only(points, i, pairs, cfg) ==
    IF pairs = <<>> THEN Failure("NoMatch")
    ELSE LET c_to == pairs[1][2]
             r == handleCandidatePair(pairs[1][1], c_to,
                      cfg.tolerated_lfrc[points[i].lfrcnp],
                      minlen(points[i], cfg), maxlen(points[i], cfg), DnpScale(cfg))
         IN  IF ~r.found THEN Failure("NoMatch")
             ELSE IF i + 1 = Len(points) THEN [ok |-> TRUE, routes |-> <<r.route>>]
             ELSE LET rest == match_tail(points, i + 1, <<c_to>>, cfg)
                  IN  IF rest.ok
                      THEN [ok |-> TRUE, routes |-> <<r.route>> \o rest.routes]
                      ELSE rest

\* the loop of match_tail over the sorted pairs, from the pair at the head
match_pairs(points, i, pairs, cfg) ==
    IF pairs = <<>> THEN Failure("NoMatch")
    ELSE LET c_to == pairs[1][2]
             r == handleCandidatePair(pairs[1][1], c_to,
                      cfg.tolerated_lfrc[points[i].lfrcnp],
                      minlen(points[i], cfg), maxlen(points[i], cfg), DnpScale(cfg))
         IN  IF ~r.found THEN match_pairs(points, i, Tail(pairs), cfg)
             ELSE IF i + 1 = Len(points) THEN [ok |-> TRUE, routes |-> <<r.route>>]
             ELSE LET rest == match_tail(points, i + 1, <<c_to>>, cfg)
                  IN  IF rest.ok
                      THEN [ok |-> TRUE, routes |-> <<r.route>> \o rest.routes]
                      ELSE IF rest.kind = "NoMatch"
                           THEN match_pairs(points, i, Tail(pairs), cfg)
                           ELSE rest

\* match_tail(current = points[i], candidates, tail = points[i + 1 ..])
match_tail(points, i, candidates, cfg) ==
    LET last_lrp == i + 1 = Len(points)
        next_candidates == nominate_candidates(points[i + 1], cfg, last_lrp)
    IN  IF last_lrp /\ next_candidates = <<>> THEN Failure("NoLastCandidates")
        ELSE match_pairs(points, i,
                         SortPairs(<<>>, Product(candidates, next_candidates)), cfg)

\* dereference_path(lrps, reader, config, observer, basemap_filter_str)
dereference_path(points, cfg, filter) ==
    LET first_candidates == first_candidates_of(points[1], cfg, filter)
    IN  IF first_candidates = <<>> THEN Failure("NoFirstCandidates")
        ELSE match_tail(points, 1, first_candidates, cfg)

\* ------------------------------------------------------------------------
\* One reference decoded with two search radii, everything else the same
\* ------------------------------------------------------------------------

\* search radii within the reach of the reader's table
Radii == {5, 25, 50}
RadiusDnps == {0, 50, 100, 150, 200, 250}

RadiusFirstLrps == {WithSegment(h, <<3, d>>) : h \in FirstHeads, d \in RadiusDnps}
RadiusLastLrps == {Terminal(h) : h \in LastHeads \cup {Lrp(9, 270), Lrp(9, 315)}}

RadiusReferences(n) ==
    {r \in [1..n -> RadiusFirstLrps \cup MidLrps \cup RadiusLastLrps] :
        /\ r[1] \in RadiusFirstLrps
        /\ r[n] \in RadiusLastLrps
        /\ \A i \in 2..(n - 1) : r[i] \in MidLrps}

WithRadius(cfg, radius) == [cfg EXCEPT !.search_radius = radius]

InitRadius ==
    /\ \E n \in 2..MaxLrps : lrps \in RadiusReferences(n)
    /\ basemap_filter_str = ""
    /\ \E r1 \in Radii, r2 \in Radii :
          /\ r1 < r2
          /\ config = WithRadius(DEFAULT_CONFIG, r1)
          /\ call = [larger |-> r2]
    /\ pc = "radius"
    /\ stack = <<>>
    /\ elapsed = 0
    /\ routes = <<>>
    /\ result = NoResult
    /\ reader_calls = 0
    /\ observer = None

\* the path of the reference with config.search_radius and with the larger
\* radius
DecodeWithBothRadii ==
    /\ pc = "radius"
    /\ result' = [kind |-> "Radii",
                  small |-> dereference_path(lrps, config, basemap_filter_str),
                  large |-> dereference_path(lrps, WithRadius(config, call.larger),
                                             basemap_filter_str)]
    /\ pc' = "done"
    /\ UNCHANGED <<lrps, basemap_filter_str, config, call, stack, elapsed, routes, observer, reader_calls>>

NextRadius == DecodeWithBothRadii

SpecRadius == InitRadius /\ [][NextRadius]_vars

\* ------------------------------------------------------------------------
\* Saving and loading a Config
\* ------------------------------------------------------------------------

\* the fields of the Config tuple, in their order
ConfigFields ==
    <<"search_radius", "max_dnp_deviation", "tolerated_dnp_dev", "min_score",
      "tolerated_lfrc", "frc_score_tolerance", "candidate_threshold",
      "max_bear_deviation", "fow_weight", "frc_weight", "geo_weight", "bear_weight",
      "fow_standin_score", "bear_dist", "equal_area", "equal_area_srid", "timeout">>

\* the keys load_config reads, in the order it hands their values to
\* Config._make
LoadedKeys ==
    <<"search_radius", "max_dnp_deviation", "tolerated_dnp_dev", "min_score",
      "tolerated_lfrc", "candidate_threshold", "rel_candidate_threshold",
      "max_bear_deviation", "fow_weight", "frc_weight", "geo_weight", "bear_weight",
      "fow_standin_score", "bear_dist", "equal_area", "timeout">>

FieldNames == {ConfigFields[i] : i \in 1..Len(ConfigFields)}

\* Config(...) with every field; fractions as <<numerator, denominator>>
FullConfig(search_radius, tolerated_lfrc, candidate_threshold, equal_area, timeout) ==
    [search_radius       |-> search_radius,
     max_dnp_deviation   |-> <<1, 10>>,
     tolerated_dnp_dev   |-> 30,
     min_score           |-> <<3, 10>>,
     tolerated_lfrc      |-> tolerated_lfrc,
     frc_score_tolerance |-> 0,
     candidate_threshold |-> candidate_threshold,
     max_bear_deviation  |-> 45,
     fow_weight          |-> <<1, 4>>,
     frc_weight          |-> <<1, 4>>,
     geo_weight          |-> <<1, 4>>,
     bear_weight         |-> <<1, 4>>,
     fow_standin_score   |-> DEFAULT_FOW_STAND_IN_SCORE,
     bear_dist           |-> 20,
     equal_area          |-> equal_area,
     equal_area_srid     |-> 2163,
     timeout             |-> timeout]

SavedConfigs ==
    {FullConfig(r, t, c, e, to) :
        r \in {10, 50},
        t \in {[frc \in 0..7 |-> frc], [frc \in 0..7 |-> 7]},
        c \in {20, 30},
        e \in BOOLEAN,
        to \in {0, 50000}}

\* config._asdict(): the dictionary from field name to value
asdict(cfg) == [key \in FieldNames |-> cfg[key]]

\* the key json.dumps writes for an FRC (an IntEnum) and int(key) on reading
FrcKey == <<"0", "1", "2", "3", "4", "5", "6", "7">>
int(key) == CHOOSE frc \in 0..7 : FrcKey[frc + 1] = key

\* dumps(dict): JSON objects have string keys, so the FRC keys of
\* tolerated_lfrc are written as strings; numbers, booleans and lists stay
dumps(dict) ==
    [json |-> [dict EXCEPT !.tolerated_lfrc =
                  [key \in {FrcKey[frc + 1] : frc \in DOMAIN dict.tolerated_lfrc}
                      |-> dict.tolerated_lfrc[int(key)]]]]

loads(text) == text.json

\* save_config(config, dest): the dictionary when dest is None, else the file
\* written at the path dest
save_config(cfg, dest) ==
    IF dest = "None" THEN [type |-> "dict", dict |-> asdict(cfg)]
    ELSE [type |-> "str", text |-> dumps(asdict(cfg))]

\* load_config(source) with source a dictionary or the path of a file
load_config(source) ==
    LET from_json == source.type # "dict"
        opened_source == IF from_json THEN loads(source.text) ELSE source.dict
        missing == {i \in 1..Len(LoadedKeys) : LoadedKeys[i] \notin DOMAIN opened_source}
        lfrc == opened_source["tolerated_lfrc"]
        values == [i \in 1..Len(LoadedKeys) |->
                      IF LoadedKeys[i] = "tolerated_lfrc"
                      THEN IF from_json
                           THEN [frc \in {int(key) : key \in DOMAIN lfrc}
                                    |-> lfrc[FrcKey[frc + 1]]]
                           ELSE lfrc
                      ELSE opened_source[LoadedKeys[i]]]
    IN  IF missing # {} THEN Raised("KeyError")
        ELSE IF Len(values) # Len(ConfigFields) THEN Raised("TypeError")
        ELSE [kind |-> "Config",
              config |-> [key \in FieldNames |->
                            values[CHOOSE i \in 1..Len(ConfigFields) : ConfigFields[i] = key]]]

InitConfig ==
    /\ config \in SavedConfigs
    /\ call \in [dest : {"None", "test-config.json"}]
    /\ pc = "config"
    /\ lrps = <<>>
    /\ basemap_filter_str = ""
    /\ stack = <<>>
    /\ elapsed = 0
    /\ routes = <<>>
    /\ result = NoResult
    /\ reader_calls = 0
    /\ observer = None

SaveConfig ==
    /\ pc = "config"
    /\ call' = [dest |-> call.dest, source |-> save_config(config, call.dest)]
    /\ pc' = "saved"
    /\ UNCHANGED <<lrps, basemap_filter_str, config, stack, elapsed, routes, result, observer, reader_calls>>

LoadConfig ==
    /\ pc = "saved"
    /\ result' = load_config(call.source)
    /\ pc' = "done"
    /\ UNCHANGED <<lrps, basemap_filter_str, config, call, stack, elapsed, routes, observer, reader_calls>>

NextConfig == SaveConfig \/ LoadConfig

SpecConfig == InitConfig /\ [][NextConfig]_vars

\* ------------------------------------------------------------------------
\* Properties
\* ------------------------------------------------------------------------

NumLrps == Len(lrps)

\* the candidates the decode works with for the i-th LRP
Cands(i) ==
    IF i = 1 THEN first_candidates_of(lrps[1], config, basemap_filter_str)
    ELSE nominate_candidates(lrps[i], config, i = NumLrps)

\* the route built for a pair of candidates of LRP i and LRP i + 1
SegmentRoute(i, c_from, c_to) ==
    handleCandidatePair(c_from, c_to, config.tolerated_lfrc[lrps[i].lfrcnp],
                        minlen(lrps[i], config), maxlen(lrps[i], config), DnpScale(config))

\* a chain of candidates from c (a candidate of LRP i) to a candidate of
\* LRP n, every pair of which has an accepted route
RECURSIVE ChainFrom(_, _, _)
ChainFrom(i, c, n) ==
    \/ i = n
    \/ \E k \in 1..Len(Cands(i + 1)) :
          /\ SegmentRoute(i, c, Cands(i + 1)[k]).found
          /\ ChainFrom(i + 1, Cands(i + 1)[k], n)

ChainExists(n) == \E k \in 1..Len(Cands(1)) : ChainFrom(1, Cands(1)[k], n)

Done == pc = "done"

\* C1: match_tail fails with NoMatch only if no chain of candidates
\* (c0, ..., cn-1) exists in which every pair has a route of accepted length:
\* backtracking is exhaustive.
C1_BacktrackingExhaustive ==
    (Done /\ result.kind = "NoMatch") => ~ChainExists(NumLrps)

\* C1 witness: a decode of three LRPs ends NoMatch although some pair of the
\* first segment was accepted (the tail was entered and failed)
C1_Witness ==
    /\ Done /\ result.kind = "NoMatch" /\ NumLrps = 3
    /\ \E a \in 1..Len(Cands(1)), b \in 1..Len(Cands(2)) :
          SegmentRoute(1, Cands(1)[a], Cands(2)[b]).found

Contiguous(lines) ==
    \A k \in 1..(Len(lines) - 1) : EndNode[lines[k]] = StartNode[lines[k + 1]]

\* C2: the lines of every segment route, of the combined route and of the
\* trimmed route of a decoded line location form a contiguous directed path.
C2_ContiguousPath ==
    /\ routes # <<>> =>
          /\ \A i \in 1..Len(routes) : Contiguous(RouteLines(routes[i]))
          /\ Contiguous(get_lines(routes))
          /\ Contiguous(RouteLines(combine_routes(routes)))
    /\ result.kind = "LineLocation" => Contiguous(RouteLines(result.route))

\* C2 witness: a line location over two segments with a searched path, of
\* which the trimming dropped a line
C2_Witness ==
    /\ result.kind = "LineLocation"
    /\ Len(routes) = 2
    /\ \E i \in 1..2 : routes[i].path # <<>>
    /\ Len(RouteLines(result.route)) >= 2
    /\ Len(RouteLines(result.route)) < Len(get_lines(routes))

InWindow(i, route) ==
    /\ minlen(lrps[i], config) <= RouteLength(route) * DnpScale(config)
    /\ RouteLength(route) * DnpScale(config) <= maxlen(lrps[i], config)

\* C3: every route match_tail returns for the segment that starts at LRP i
\* has a length within [minlen, maxlen] of that LRP.
C3_LengthWindow ==
    /\ \A i \in 1..Len(routes) : InWindow(i, routes[i])
    /\ \A d \in 1..Len(stack) : stack[d].route.found => InWindow(stack[d].current, stack[d].route.route)

\* C3 witness: a path is returned, and a pair of candidates of its first
\* segment has a route that is too short for the window
C3_Witness ==
    /\ routes # <<>>
    /\ \E a \in 1..Len(Cands(1)), b \in 1..Len(Cands(2)) :
          LET r == get_candidate_route(Cands(1)[a], Cands(2)[b],
                       config.tolerated_lfrc[lrps[1].lfrcnp],
                       maxlen(lrps[1], config), DnpScale(config))
          IN  /\ r.found
              /\ ~InWindow(1, r.route)
              /\ RouteLength(r.route) * DnpScale(config) < minlen(lrps[1], config)

\* the edges of the segment routes
SegmentEdges(i) == {RouteLines(routes[i])[k] : k \in 1..Len(RouteLines(routes[i]))}

\* C4: every edge of the segment route returned for LRP i, the edges of the
\* two candidates included, has frc <= tolerated_lfrc[lrps[i].lfrcnp].
C4_AllEdgesTolerated ==
    \A i \in 1..Len(routes) :
        \A line \in SegmentEdges(i) :
            Frc[line] <= config.tolerated_lfrc[lrps[i].lfrcnp]

\* the offsets in meters build_line_location took from a decoded reference
LinePOff == Fraction(result.poffs, RouteLength(Head(routes)))
LineNOff == Fraction(result.noffs, RouteLength(Last(routes)))

\* C5: when remove_offsets(R, p_off, n_off) succeeds with p_off, n_off >= 0,
\* the length of the route it returns is R.length() - p_off - n_off, however
\* many whole lines were dropped at the front and at the back.
C5_TrimmedLength ==
    (result.kind = "LineLocation" /\ LinePOff >= 0 /\ LineNOff >= 0) =>
        RouteLength(result.route)
            = RouteLength(combine_routes(routes)) - LinePOff - LineNOff

\* C5 witness: a route that starts and ends inside its first and last line
\* is trimmed by positive offsets that drop a whole line at the front and a
\* whole line at the back
C5_Witness ==
    /\ result.kind = "LineLocation"
    /\ LinePOff > 0 /\ LineNOff > 0
    /\ LET R == combine_routes(routes)
       IN  /\ absolute_start_offset(R) > 0
           /\ absolute_end_offset(R) > 0
           /\ Len(RouteLines(R)) = 3
           /\ RouteLines(result.route) = <<RouteLines(R)[2]>>

\* the distance along route R from its start point to the point `offset`
\* meters into the k-th line of R
DistanceAlong(R, k, offset) ==
    path_length(SubSeq(RouteLines(R), 1, k - 1)) + offset - R.start.off

\* C6: for 0 <= d < R.length(), point_along_linelocation(R, d) returns a line
\* of R and an offset on it such that the point lies d meters along R.
C6_PointAtDistance ==
    result.kind = "PointAlongLine" =>
        LET R == combine_routes(routes)
            d == pointalongline_offset(R, result.poffs)
        IN  (0 <= d /\ d < RouteLength(R)) =>
                \E k \in 1..Len(RouteLines(R)) :
                    /\ RouteLines(R)[k] = result.line
                    /\ DistanceAlong(R, k, result.offset) = d

\* the absolute offset a point decoder asked point_along_linelocation for
RequestedOffset(kind, R, poffs) ==
    IF kind = "PointAlongLine" THEN pointalongline_offset(R, poffs)
    ELSE poi_offset(R, poffs)

\* C7: a point-along-line or POI decode whose requested absolute offset is
\* larger than the length of the combined route fails with OffsetExceedsPath:
\* it returns no point.
C7_OffsetExceedsPath ==
    result.kind \in {"PointAlongLine", "PoiWithAccessPoint"} =>
        RequestedOffset(result.kind, combine_routes(routes), result.poffs)
            <= RouteLength(combine_routes(routes))

\* C8: decoding a POI with access point gives the line and the offset that
\* decoding the point-along-line reference of the same LRPs and poffs gives.
C8_PoiAsPointAlongLine ==
    result.kind = "PoiWithAccessPoint" =>
        LET R == combine_routes(routes)
            pal == point_along_linelocation(R, pointalongline_offset(R, result.poffs))
        IN  /\ pal.ok
            /\ pal.line = result.line
            /\ pal.offset = result.offset

\* C9: every route of a decode - the segment routes match_tail accepted,
\* the combined route and the trimmed route - has length() >= 0.
C9_NonNegativeLength ==
    /\ \A d \in 1..Len(stack) :
          stack[d].route.found => RouteLength(stack[d].route.route) >= 0
    /\ \A i \in 1..Len(routes) : RouteLength(routes[i]) >= 0
    /\ routes # <<>> => RouteLength(combine_routes(routes)) >= 0
    /\ result.kind = "LineLocation" => RouteLength(result.route) >= 0

\* C10: when the terminal LRP has no candidate and the segments before it
\* have a chain of accepted routes, a decode that did not time out fails with
\* NoLastCandidates, not with NoMatch, whatever the depth of the frame.
C10_NoLastCandidates ==
    (/\ Done
     /\ result.kind # "Timeout"
     /\ Cands(NumLrps) = <<>>
     /\ ChainExists(NumLrps - 1)) => result.kind = "NoLastCandidates"

\* C10 witness: the failure was raised by a nested call of match_tail
C10_Witness ==
    /\ Done /\ result.kind = "NoLastCandidates"
    /\ NumLrps = 3
    /\ Cands(NumLrps) = <<>>
    /\ ChainExists(NumLrps - 1)

\* the candidates of the first LRP under the search with the given filter,
\* and under the search without a filter
FilteredFirst == nominate_candidates_filtered(lrps[1], config, FALSE, basemap_filter_str)
UnfilteredFirst == nominate_candidates(lrps[1], config, FALSE)

\* C11 as claimed: a decode fails with NoFirstCandidates exactly when the
\* search with the given base-map filter leaves no candidate for the first LRP.
C11_NoFirstCandidatesAsClaimed ==
    pc # "start" => (result.kind = "NoFirstCandidates" <=> FilteredFirst = <<>>)

\* C11: a decode fails with NoFirstCandidates exactly when neither the
\* search with the given filter nor the search without a filter leaves a
\* candidate for the first LRP; the failure is raised by dereference_path
\* before match_tail is entered: no frame, no call, no clock reading, no route.
C11_NoFirstCandidates ==
    /\ [](pc # "start" =>
            (result.kind = "NoFirstCandidates"
                <=> (FilteredFirst = <<>> /\ UnfilteredFirst = <<>>)))
    /\ [](result.kind = "NoFirstCandidates" =>
            (pc = "done" /\ stack = <<>> /\ call = NoCall /\ elapsed = 0 /\ routes = <<>>))
    /\ [][result'.kind = "NoFirstCandidates" => (pc = "start" \/ pc = "done")]_vars

\* C11 witness: a decode of three LRPs with a base-map filter has failed
\* with NoFirstCandidates
C11_Witness ==
    /\ result.kind = "NoFirstCandidates"
    /\ basemap_filter_str # ""
    /\ NumLrps = 3

\* C12: with config.timeout = 0, every decode that reaches the matcher (the
\* first LRP has a candidate) fails with Timeout, however little time has
\* passed at the first time check of the outermost match_tail.
C12_TimeoutZero ==
    (Done /\ config.timeout = 0 /\ Cands(1) # <<>>) => result.kind = "Timeout"

\* all directed paths of the map of at most MaxPathLines lines
DirectedPaths ==
    {p \in UNION {[1..n -> Lines] : n \in 0..MaxPathLines} :
        \A k \in 1..(Len(p) - 1) : EndNode[p[k]] = StartNode[p[k + 1]]}

\* p leads from node `start` to node `endn` over lines the filter lets pass
PathFromTo(p, start, endn, lfrc) ==
    /\ IF p = <<>> THEN start = endn
       ELSE StartNode[p[1]] = start /\ EndNode[p[Len(p)]] = endn
    /\ \A k \in 1..Len(p) : linefilter(p[k], lfrc)

\* the directed paths shortest_path was asked to choose from
AllowedPaths ==
    {p \in DirectedPaths : PathFromTo(p, call.start, call.end, call.lfrc)}

\* C13: a path returned by shortest_path is no longer than any directed
\* path from start to end whose lines all pass the line filter (the heuristic
\* of the map never overestimates, and no line is shorter than the distance
\* between its nodes).
C13_ShortestPathMinimal ==
    result.kind = "Path" =>
        \A p \in AllowedPaths : path_length(result.path) <= path_length(p)

\* C13 witness: a path of three lines is returned while a longer path
\* between the same nodes passes the filter too
C13_Witness ==
    /\ result.kind = "Path"
    /\ Len(result.path) = 3
    /\ \E p \in AllowedPaths : path_length(p) > path_length(result.path)

MatcherAgrees ==
    LET d == dereference_path(lrps, config, basemap_filter_str)
    IN  /\ routes # <<>> => (d.ok /\ d.routes = routes)
        /\ (Done /\ result.kind \in {"NoFirstCandidates", "NoLastCandidates", "NoMatch"})
              => (~d.ok /\ d.kind = result.kind)

\* no two pairs of candidates of consecutive LRPs have the same score
TieFree(points, cfg) ==
    \A i \in 1..(Len(points) - 1) :
        LET pairs == Product(nominate_candidates(points[i], cfg, FALSE),
                             nominate_candidates(points[i + 1], cfg, i + 1 = Len(points)))
        IN  \A a \in 1..Len(pairs), b \in 1..Len(pairs) :
                a # b => PairScore(pairs[a]) # PairScore(pairs[b])

C16_ConfigRoundTrip ==
    pc = "done" => (result.kind = "Config" /\ result.config = config)

\* C17: an observer is a side channel only: a decode with an observer ends as
\* the decode without one does, with the same path or the same error (the
\* timeout, which depends on the clock, aside).
C17_ObserverSideChannel ==
    (Done /\ result.kind # "Timeout")
        => LET d == dereference_path(lrps, config, basemap_filter_str)
           IN  IF d.ok THEN routes = d.routes ELSE result.kind = d.kind

\* C18: every pair of candidates that is handled leaves exactly one route
\* event with the observer: a successful one if and only if a route was found
\* and its length accepted, a failed one otherwise.
C18_OneRouteEventPerPair ==
    pc = "done"
        => /\ Len(observer.attempted_routes) = 1
           /\ observer.attempted_routes[1].success
                 = handleCandidatePair(call.source, call.dest,
                       config.tolerated_lfrc[lrps[1].lfrcnp],
                       minlen(lrps[1], config), maxlen(lrps[1], config),
                       DnpScale(config)).found

\* C19: the poi of a decoded POI with access point is the (lon, lat) of the
\* reference, unchanged.
C19_PoiCoordinate ==
    result.kind = "PoiWithAccessPoint"
        => /\ result.poi.lon = result.reference.lon
           /\ result.poi.lat = result.reference.lat

\* C19 witness: a POI decoded from a reference whose longitude and latitude
\* differ
C19_Witness ==
    /\ result.kind = "PoiWithAccessPoint"
    /\ result.reference.lon # result.reference.lat
    /\ result.poi = Coordinates(result.reference.lon, result.reference.lat)

\* C20: the decode of a Geo-coordinate reference returns the coordinate of the
\* reference unchanged; it never calls the reader or the observer and never
\* fails.
C20_GeoCoordinate ==
    IsGeoCoordinate
        => /\ reader_calls = 0
           /\ observer \in {None, SimpleObserver}
           /\ stack = <<>> /\ elapsed = 0
           /\ pc \in {"decode", "done"}
           /\ pc = "decode" => ENABLED DecodeGeoCoordinate
           /\ pc = "done" => result = [kind |-> "Coordinates",
                                       point |-> call.reference.point]

\* C20 witness: a Geo-coordinate reference has been decoded with an observer
C20_Witness ==
    /\ IsGeoCoordinate
    /\ pc = "done"
    /\ observer = SimpleObserver
    /\ result.kind = "Coordinates"
    /\ result.point.lon # result.point.lat

\* a route that stays on one line and ends before it starts
BackwardSingleEdge(route) ==
    /\ route.path = <<>>
    /\ route.start.line = route.end.line
    /\ route.end.off < route.start.off

\* C21: for two candidates on one line the matcher takes the single-edge
\* route only when the first does not lie behind the second (else it searches
\* from the end node of the line to its start node): no route match_tail
\* holds or returns is a single-edge route whose end offset is smaller than
\* its start offset.
C21_NoBackwardSingleEdge ==
    /\ \A d \in 1..Len(stack) :
          stack[d].route.found => ~BackwardSingleEdge(stack[d].route.route)
    /\ \A i \in 1..Len(routes) : ~BackwardSingleEdge(routes[i])

\* C22: when the path match_tail returned runs forward, the route that
\* remove_offsets returns is never a single-edge route whose end offset is
\* smaller than its start offset (the decode fails with OffsetExceedsPath
\* instead).
C22_TrimmedRunsForward ==
    (/\ result.kind = "LineLocation"
     /\ \A i \in 1..Len(routes) : RouteLength(routes[i]) >= 0)
        => ~BackwardSingleEdge(result.route)

\* the route of the j-th pair of frame f
FramePairRoute(f, j) == PairRoute([f EXCEPT !.k = j])

\* the j-th pair of frame f is rejected: it has no accepted route, or the
\* match of the tail from its second candidate fails
PairRejected(f, j) ==
    \/ ~FramePairRoute(f, j).found
    \/ /\ f.current + 1 < NumLrps
       /\ ~match_tail(lrps, f.current + 1, <<f.pairs[j][2]>>, config).ok

\* every frame holds its pairs best score sum first, has rejected every pair
\* before the one it is at, and a frame that waits for its tail waits with
\* an accepted pair
FramesInScoreOrder ==
    \A d \in 1..Len(stack) :
        /\ \A j \in 1..(Len(stack[d].pairs) - 1) :
              PairScore(stack[d].pairs[j]) >= PairScore(stack[d].pairs[j + 1])
        /\ \A j \in 1..(stack[d].k - 1) : PairRejected(stack[d], j)
        /\ d < Len(stack) =>
              /\ stack[d].route.found
              /\ stack[d].route = FramePairRoute(stack[d], stack[d].k)

\* C23: a frame of match_tail tries its pairs in non-increasing order of the
\* score sum and returns the route of the first pair that is accepted (and
\* whose tail matches); every pair before it was tried and rejected, and no
\* pair is tried after the success.
C23_FirstAcceptedPairInScoreOrder ==
    /\ []FramesInScoreOrder
    /\ [][(pc = "loop" /\ pc' = "assemble")
            => /\ Len(routes') = Len(stack)
               /\ \A d \in 1..Len(stack) :
                     LET r == FramePairRoute(stack[d], stack[d].k)
                     IN  r.found /\ routes'[d] = r.route]_vars
    /\ [](pc \in {"assemble", "done"} => stack = <<>>)

\* C23 witness: the first frame of a decode of three LRPs is at an accepted
\* pair of strictly lower score than its best pair, whose route was accepted
\* too but whose tail did not match
C23_Witness ==
    /\ pc = "loop" /\ NumLrps = 3 /\ Len(stack) = 1
    /\ Top.k >= 2 /\ Top.k <= Len(Top.pairs)
    /\ PairScore(Top.pairs[1]) > PairScore(Top.pairs[Top.k])
    /\ FramePairRoute(Top, 1).found
    /\ PairRoute(Top).found

\* the pair frame f is at lies on two lines between which shortest_path
\* raises LRPathNotFoundError
PairPathNotFound(f) ==
    LET c_from == f.pairs[f.k][1]
        c_to == f.pairs[f.k][2]
        current == lrps[f.current]
    IN  /\ c_from.line # c_to.line
        /\ ~shortest_path(EndNode[c_from.line], StartNode[c_to.line],
                          config.tolerated_lfrc[current.lfrcnp],
                          maxlen(current, config), DnpScale(config)).found

\* C24: a PathNotFound of the search for a pair never leaves the matcher: the
\* pair is passed and the frame goes on with its next pair.  A Timeout raised
\* at the entry of a frame of any depth ends the decode with Timeout: no
\* frame goes on with another pair and none turns it into NoMatch.
C24_ErrorPropagation ==
    /\ [](result.kind # "PathNotFound")
    /\ [][(pc = "loop" /\ Top.k <= Len(Top.pairs) /\ PairPathNotFound(Top))
            => /\ pc' = "loop"
               /\ stack' = [stack EXCEPT ![Len(stack)].k = @ + 1]
               /\ result' = result]_vars
    /\ [][(pc = "enter" /\ elapsed' > config.timeout)
            => /\ pc' = "done"
               /\ result' = Raised("Timeout")
               /\ stack' = <<>>]_vars
    /\ [][result.kind = "Timeout" => result' = result]_vars

\* C24 witness: a decode has ended with Timeout at the entry of a frame below
\* the outermost one (the reader was asked for the first LRP and for the
\* second, the third search was never made)
C24_Witness ==
    /\ Done /\ result.kind = "Timeout"
    /\ basemap_filter_str = "" /\ NumLrps = 3
    /\ reader_calls = 2

\* C25: the elapsed time is checked at every iteration over the pairs too:
\* when it exceeds config.timeout while a frame has a pair left, the decode
\* ends with Timeout before that pair is handled.
C25_TimeoutInsideLoop ==
    [][(pc = "loop" /\ Top.k <= Len(Top.pairs) /\ elapsed > config.timeout)
        => (pc' = "done" /\ result' = Raised("Timeout"))]_vars

\* the nodes at either end of every line that starts or ends at n
LineEndpoints(n) ==
    UNION {{StartNode[l], EndNode[l]} : l \in {m \in Lines : StartNode[m] = n \/ EndNode[m] = n}}

\* the nodes make_candidate classifies for the reference: both ends of every
\* line close to one of its points
ClassifiedNodes ==
    UNION {{StartNode[l], EndNode[l]} :
           l \in UNION {{m \in Lines : \E j \in 1..Len(lines_close_to(lrps[i].pos, config.search_radius, basemap_filter_str)) :
                                          lines_close_to(lrps[i].pos, config.search_radius, basemap_filter_str)[j] = m} :
                        i \in 1..Len(lrps)}}

\* C26: a node is not valid exactly when it has one line in and one out, or
\* two in and two out, and the lines that start or end at it have exactly
\* three distinct end nodes between them.
C26_ValidNode ==
    \A n \in ClassifiedNodes :
        is_valid_node(n) <=>
            ~(/\ \/ Len(incoming_line_nodes(n)) = 1 /\ Len(outgoing_line_nodes(n)) = 1
                 \/ Len(incoming_line_nodes(n)) = 2 /\ Len(outgoing_line_nodes(n)) = 2
              /\ Cardinality(LineEndpoints(n)) = 3)

\* the projection of the point at `pos` lies within the threshold of a
\* valid node at the start (at the end) of `line`
NearValidStart(line, pos) ==
    /\ Abs(distance_from_start(project(line, pos))) <= config.candidate_threshold
    /\ is_valid_node(StartNode[line])
NearValidEnd(line, pos) ==
    /\ Abs(distance_to_end(project(line, pos))) <= config.candidate_threshold
    /\ is_valid_node(EndNode[line])

\* the offsets of the candidates that `cands` holds on `line`
OffsetsOn(cands, line) == {cands[j].off : j \in {m \in 1..Len(cands) : cands[m].line = line}}

\* the snap policy for the candidates `cands` of the LRP lrps[i]
SnapPolicy(cands, i) ==
    \A line \in Lines :
        IF i # NumLrps
        THEN /\ NearValidStart(line, lrps[i].pos) => OffsetsOn(cands, line) \subseteq {0}
             /\ (~NearValidStart(line, lrps[i].pos) /\ NearValidEnd(line, lrps[i].pos))
                    => OffsetsOn(cands, line) = {}
        ELSE /\ NearValidEnd(line, lrps[i].pos)
                    => OffsetsOn(cands, line) \subseteq {Length[line]}
             /\ (~NearValidEnd(line, lrps[i].pos) /\ NearValidStart(line, lrps[i].pos))
                    => OffsetsOn(cands, line) = {}

\* C27: a candidate of a non-terminal LRP whose projection is within
\* candidate_threshold of a valid start node sits at offset 0; otherwise a
\* line whose valid end node is that near carries no candidate.  For the
\* terminal LRP start and end change places: the candidate sits at the end
\* of the line, and a line with a valid start node that near carries none.
C27_JunctionSnap ==
    \A d \in 1..Len(stack) :
        /\ SnapPolicy(stack[d].candidates, stack[d].current)
        /\ SnapPolicy(stack[d].next_candidates, stack[d].current + 1)

\* a frame whose first candidates were moved to a start node or dropped
\* near an end node, and whose next point is the terminal one with a
\* candidate at a line's end and a line dropped near its start
C27_Witness ==
    /\ pc = "loop" /\ Len(stack) = 1 /\ NumLrps = 2
    /\ \E line \in Lines :
          /\ NearValidStart(line, lrps[1].pos)
          /\ project(line, lrps[1].pos).off # 0
          /\ OffsetsOn(stack[1].candidates, line) = {0}
    /\ \E line \in Lines :
          /\ ~NearValidStart(line, lrps[1].pos) /\ NearValidEnd(line, lrps[1].pos)
          /\ DistToProjection[lrps[1].pos][line] <= config.search_radius
    /\ \E line \in Lines :
          /\ NearValidEnd(line, lrps[2].pos)
          /\ OffsetsOn(stack[1].next_candidates, line) = {Length[line]}
    /\ \E line \in Lines :
          /\ ~NearValidEnd(line, lrps[2].pos) /\ NearValidStart(line, lrps[2].pos)
          /\ \E j \in 1..Len(find_lines_close_to[lrps[2].pos]) :
                find_lines_close_to[lrps[2].pos][j] = line

\* C28: a path shortest_path returns is empty exactly when start and end are
\* the same node; otherwise its first line leaves start, every line ends
\* where the next one starts, its last line ends at end, and every line of
\* it passes the line filter.
C28_PathWellFormed ==
    result.kind = "Path" =>
        LET path == result.path
        IN  /\ path = <<>> <=> call.start = call.end
            /\ path # <<>> =>
                  /\ StartNode[path[1]] = call.start
                  /\ \A i \in 1..(Len(path) - 1) : EndNode[path[i]] = StartNode[path[i + 1]]
                  /\ EndNode[path[Len(path)]] = call.end
                  /\ \A i \in 1..Len(path) : Frc[path[i]] <= call.lfrc

\* C28 witness: a path of two lines or more is returned although a line
\* leaving the start node does not pass the filter
C28_Witness ==
    /\ result.kind = "Path"
    /\ Len(result.path) >= 2
    /\ \E l \in Lines : StartNode[l] = call.start /\ Frc[l] > call.lfrc

\* ------------------------------------------------------------------------
\* Route.lines and get_lines on their own: lists of routes over three lines
\* of the map, each route ending on the line the next one starts on
\* ------------------------------------------------------------------------

MaxInterior == 1
MaxParts == 2

PartLines == {1, 2, 5}

Interiors == UNION {[1..n -> PartLines] : n \in 0..MaxInterior}

PartRoutes ==
    {Route(PointOnLine(a, 0), p, PointOnLine(b, Length[b])) :
        a \in PartLines, p \in Interiors, b \in PartLines}

LineLocationPaths ==
    {parts \in UNION {[1..n -> PartRoutes] : n \in 1..MaxParts} :
        \A i \in 1..(Len(parts) - 1) : parts[i].end.line = parts[i + 1].start.line}

InitLines ==
    /\ lrps = <<>>
    /\ basemap_filter_str = ""
    /\ config = DEFAULT_CONFIG
    /\ pc = "lines"
    /\ call \in [line_location_path : LineLocationPaths]
    /\ stack = <<>>
    /\ elapsed = 0
    /\ routes = <<>>
    /\ result = NoResult
    /\ reader_calls = 0
    /\ observer = None

\* part.lines of every part, and get_lines of the whole list
GetLines ==
    /\ pc = "lines"
    /\ result' = [kind |-> "Lines",
                  part_lines |-> [i \in 1..Len(call.line_location_path) |->
                                     RouteLines(call.line_location_path[i])],
                  lines |-> get_lines(call.line_location_path)]
    /\ pc' = "done"
    /\ UNCHANGED <<lrps, basemap_filter_str, config, call, stack, elapsed, routes, observer, reader_calls>>

NextLines == GetLines

SpecLines == InitLines /\ [][NextLines]_vars

NoRepeat(lines) == \A i \in 1..(Len(lines) - 1) : lines[i] # lines[i + 1]

\* the lines of the parts in order, the line at each seam taken once
RECURSIVE Joined(_)
Joined(part_lines) ==
    IF Len(part_lines) = 1 THEN part_lines[1]
    ELSE Joined(Front(part_lines)) \o Tail(Last(part_lines))

\* C29: Route.lines starts with the start line and ends with the end line
\* and never lists a line twice in a row, also when the lines in between
\* begin with the start line or end with the end line; get_lines of parts
\* that each end on the line the next starts on is the parts' lines in
\* order with the line at each seam once, no line twice in a row.
C29_SharedEdgesOnce ==
    result.kind = "Lines" =>
        /\ \A i \in 1..Len(call.line_location_path) :
              /\ Head(result.part_lines[i]) = call.line_location_path[i].start.line
              /\ Last(result.part_lines[i]) = call.line_location_path[i].end.line
              /\ NoRepeat(result.part_lines[i])
        /\ result.lines = Joined(result.part_lines)
        /\ NoRepeat(result.lines)

\* C29 witness: two parts; the first has its start line again in between,
\* the second its end line, and the joined list has three lines
C29_Witness ==
    /\ result.kind = "Lines"
    /\ Len(call.line_location_path) = 2
    /\ call.line_location_path[1].path = <<call.line_location_path[1].start.line>>
    /\ call.line_location_path[1].end.line # call.line_location_path[1].start.line
    /\ call.line_location_path[2].path = <<call.line_location_path[2].end.line>>
    /\ call.line_location_path[2].end.line # call.line_location_path[2].start.line
    /\ Len(result.lines) = 3

\* ------------------------------------------------------------------------
\* score_bearing on its own: the bearing of the LRP and the bearing
\* compute_bearing finds on the candidate, both in whole degrees
\* ------------------------------------------------------------------------

Degrees == 0..359

InitBearing ==
    /\ lrps = <<>>
    /\ basemap_filter_str = ""
    /\ config = DEFAULT_CONFIG
    /\ pc = "bearing"
    /\ call \in [wanted_bear : Degrees, bear : Degrees]
    /\ stack = <<>>
    /\ elapsed = 0
    /\ routes = <<>>
    /\ result = NoResult
    /\ reader_calls = 0
    /\ observer = None

\* score_bearing(wanted, actual, ...) with bear = compute_bearing(...)
ScoreBearing ==
    /\ pc = "bearing"
    /\ result' = [kind |-> "Score",
                  score |-> score_angle_sector_differences(call.wanted_bear, call.bear)]
    /\ pc' = "done"
    /\ UNCHANGED <<lrps, basemap_filter_str, config, call, stack, elapsed, routes, observer, reader_calls>>

NextBearing == ScoreBearing

SpecBearing == InitBearing /\ [][NextBearing]_vars

\* C30: the bearing score is 1 - |angle_difference(expected, computed)| / 180
\* for all whole degrees (the score is held in units of 1 / ScoreUnit).
C30_BearingScore ==
    result.kind = "Score" =>
        180 * result.score
            = ScoreUnit * (180 - Abs(angle_difference(call.wanted_bear, call.bear)))

====
